---- MODULE Spec2Model ----
(***************************************************************************)
(* A model of src/src/collector.rs: the bounded-memory frequency counter   *)
(* of pprof-rs.  A Collector owns a StackHashCounter (an array of BUCKETS  *)
(* buckets of BUCKETS_ASSOCIATIVITY entries each) and a TempFdArray (a     *)
(* staging buffer of BUFFER_LENGTH entries in front of a temporary file).  *)
(*                                                                         *)
(* Arrays are functions over 0..n-1, as in the source.  An Option<Entry>   *)
(* is a sequence of length 0 (None) or 1 (Some).  An io::Result<()> is     *)
(* "Ok" or "Err".                                                          *)
(***************************************************************************)
EXTENDS Integers, Sequences, FiniteSets

\* ---------------------------------------------------------------- sizes

\* collector.rs:9
BUCKETS_ASSOCIATIVITY == 4

\* collector.rs:8 and :10 divide by size_of::<Entry<UnresolvedFrames>>(), a
\* type outside this file; the model runs with small values of both.
BUCKETS == 2

BUFFER_LENGTH == 2

\* A run makes at most MaxAdds calls of Collector::add, enough to fill a
\* bucket twice over and add once more, and at most MaxIters calls of
\* Collector::iter.
MaxAdds == 2 * BUCKETS_ASSOCIATIVITY + 1

MaxIters == 2

\* The keys handed to add: two more than a bucket holds, so that a bucket
\* can overflow while another bucket is occupied.
NumKeys == BUCKETS_ASSOCIATIVITY + 2

Keys == 0 .. (NumKeys - 1)

\* ---------------------------------------------------------------- Entry

\* collector.rs:12-15
Entry(item, count) == [item |-> item, count |-> count]

\* A slot of an array made by MaybeUninit::uninit().assume_init() that the
\* program has not written yet.  No code path reads such a slot: Bucket
\* reads entries[0..length), TempFdArray reads buffer[0..buffer_index) and
\* flushes only a full buffer.
Uninit == [item |-> -1, count |-> 0]

\* ---------------------------------------------------------------- Bucket

\* collector.rs:22-29
Bucket_default ==
    [length |-> 0,
     entries |-> [i \in 0 .. (BUCKETS_ASSOCIATIVITY - 1) |-> Uninit]]

\* Bucket_scan with the increment left out.
Bucket_scan_no_increment(b, key) == b.entries

\* collector.rs:33-39: the for_each over entries[0..length) that increments
\* every entry whose item equals key (the closure has no break).
Bucket_scan(b, key) ==
    [i \in 0 .. (BUCKETS_ASSOCIATIVITY - 1) |->
        IF i < b.length /\ b.entries[i].item = key
        THEN Entry(b.entries[i].item, b.entries[i].count + 1)
        ELSE b.entries[i]]

\* Bucket_done looking at slot 0 alone.
Bucket_done_first_slot(b, key) ==
    b.length > 0 /\ b.entries[0].item = key

\* collector.rs:33-39: the flag `done` after the scan.
Bucket_done(b, key) ==
    \E i \in 0 .. (b.length - 1) : b.entries[i].item = key

\* collector.rs:51-59: the loop `for index in 0..self.length`, started with
\* min_index = 0 and min_count = entries[0].count; only a strictly smaller
\* count moves min_index.
RECURSIVE Bucket_min_loop(_, _, _, _)
Bucket_min_loop(b, index, min_index, min_count) ==
    IF index >= b.length
    THEN min_index
    ELSE IF b.entries[index].count < min_count
         THEN Bucket_min_loop(b, index + 1, index, b.entries[index].count)
         ELSE Bucket_min_loop(b, index + 1, min_index, min_count)

\* Bucket_min_index with the comparison turned round: a slot of largest
\* count.
Bucket_max_index(b) ==
    CHOOSE i \in 0 .. (b.length - 1) :
        \A j \in 0 .. (b.length - 1) : b.entries[j].count <= b.entries[i].count

\* Bucket_min_index with `<=` for `<` in the loop: the last slot of minimum
\* count.
Bucket_min_index_last(b) ==
    CHOOSE i \in 0 .. (b.length - 1) :
        /\ \A j \in 0 .. (b.length - 1) : b.entries[i].count <= b.entries[j].count
        /\ \A j \in (i + 1) .. (b.length - 1) :
              b.entries[i].count < b.entries[j].count

\* collector.rs:51-59
Bucket_min_index(b) == Bucket_min_loop(b, 0, 0, b.entries[0].count)

\* Bucket_add that overwrites the victim and returns None.
Bucket_add_drop_victim(b, key) ==
    IF Bucket_done(b, key)
    THEN [bucket |-> [b EXCEPT !.entries = Bucket_scan(b, key)],
          evict |-> << >>]
    ELSE IF b.length < BUCKETS_ASSOCIATIVITY
    THEN [bucket |-> [length |-> b.length + 1,
                      entries |-> [b.entries EXCEPT ![b.length] = Entry(key, 1)]],
          evict |-> << >>]
    ELSE [bucket |-> [b EXCEPT !.entries[Bucket_min_index(b)] = Entry(key, 1)],
          evict |-> << >>]

\* Bucket_add that removes the victim, moves the later entries down a slot
\* and puts the new entry last.
Bucket_add_shift(b, key) ==
    IF Bucket_done(b, key)
    THEN [bucket |-> [b EXCEPT !.entries = Bucket_scan(b, key)],
          evict |-> << >>]
    ELSE IF b.length < BUCKETS_ASSOCIATIVITY
    THEN [bucket |-> [length |-> b.length + 1,
                      entries |-> [b.entries EXCEPT ![b.length] = Entry(key, 1)]],
          evict |-> << >>]
    ELSE LET min_index == Bucket_min_index(b)
         IN [bucket |->
                [b EXCEPT !.entries =
                    [i \in 0 .. (BUCKETS_ASSOCIATIVITY - 1) |->
                        IF i < min_index THEN b.entries[i]
                        ELSE IF i < BUCKETS_ASSOCIATIVITY - 1
                        THEN b.entries[i + 1]
                        ELSE Entry(key, 1)]],
             evict |-> << b.entries[min_index] >>]

\* Bucket_add that starts the entry of a free slot at count 0.
Bucket_add_insert_zero(b, key) ==
    IF Bucket_done(b, key)
    THEN [bucket |-> [b EXCEPT !.entries = Bucket_scan(b, key)],
          evict |-> << >>]
    ELSE IF b.length < BUCKETS_ASSOCIATIVITY
    THEN [bucket |-> [length |-> b.length + 1,
                      entries |-> [b.entries EXCEPT ![b.length] = Entry(key, 0)]],
          evict |-> << >>]
    ELSE LET min_index == Bucket_min_index(b)
         IN [bucket |-> [b EXCEPT !.entries[min_index] = Entry(key, 1)],
             evict |-> << b.entries[min_index] >>]

\* Bucket_add that also extends the occupied prefix when it finds the key.
Bucket_add_grow_on_hit(b, key) ==
    IF Bucket_done(b, key)
    THEN [bucket |-> [length |-> IF b.length < BUCKETS_ASSOCIATIVITY
                                 THEN b.length + 1 ELSE b.length,
                      entries |-> Bucket_scan(b, key)],
          evict |-> << >>]
    ELSE IF b.length < BUCKETS_ASSOCIATIVITY
    THEN [bucket |-> [length |-> b.length + 1,
                      entries |-> [b.entries EXCEPT ![b.length] = Entry(key, 1)]],
          evict |-> << >>]
    ELSE LET min_index == Bucket_min_index(b)
         IN [bucket |-> [b EXCEPT !.entries[min_index] = Entry(key, 1)],
             evict |-> << b.entries[min_index] >>]

\* collector.rs:32-68: the bucket after add(key) and the Option<Entry> it
\* returns.
Bucket_add(b, key) ==
    IF Bucket_done(b, key)
    THEN [bucket |-> [b EXCEPT !.entries = Bucket_scan(b, key)],
          evict |-> << >>]
    ELSE IF b.length < BUCKETS_ASSOCIATIVITY
    THEN [bucket |-> [length |-> b.length + 1,
                      entries |-> [b.entries EXCEPT ![b.length] = Entry(key, 1)]],
          evict |-> << >>]
    ELSE LET min_index == Bucket_min_index(b)
         IN [bucket |-> [b EXCEPT !.entries[min_index] = Entry(key, 1)],
             evict |-> << b.entries[min_index] >>]

\* collector.rs:86-93: BucketIterator::next at position index: the item it
\* yields (None when the occupied prefix is exhausted) and the new index.
BucketIterator_next(b, index) ==
    IF index < b.length
    THEN [index |-> index + 1, item |-> << b.entries[index] >>]
    ELSE [index |-> index, item |-> << >>]

\* collector.rs:70-94: everything a BucketIterator started at `index` yields.
RECURSIVE Bucket_iter_from(_, _)
Bucket_iter_from(b, index) ==
    LET n == BucketIterator_next(b, index)
    IN IF n.item = << >> THEN << >>
       ELSE n.item \o Bucket_iter_from(b, n.index)

\* collector.rs:70-75
Bucket_iter(b) == Bucket_iter_from(b, 0)

\* ------------------------------------------------------ StackHashCounter

\* collector.rs:100-111
StackHashCounter_default == [i \in 0 .. (BUCKETS - 1) |-> Bucket_default]

\* collector.rs:114-118: DefaultHasher's digest of the key.  The digest is a
\* fixed function of the key for the whole run; which function is not
\* modelled, so a run starts with any assignment of digests to keys (the
\* variable hash below) and keeps it.  Digests range over 1..BUCKETS: one
\* digest for each bucket, of which BUCKETS itself is reduced to index 0.  A
\* key is a label with no meaning beyond equality and its digest, so the
\* keys are numbered in the order of their digests.
HashValues == 1 .. BUCKETS

HashFunctions ==
    {h \in [Keys -> HashValues] : \A j, k \in Keys : j < k => h[j] <= h[k]}

StackHashCounter_hash(h, key) == h[key]

\* collector.rs:122: the index of the bucket add(key) works on.
StackHashCounter_index(h, key) == StackHashCounter_hash(h, key) % BUCKETS

\* StackHashCounter_add moving on to the next bucket when the hashed one is
\* full of other keys.
StackHashCounter_add_probing(buckets, h, key) ==
    LET home == StackHashCounter_index(h, key)
        miss == \A i \in 0 .. (buckets[home].length - 1) :
                    buckets[home].entries[i].item # key
        idx == IF buckets[home].length = BUCKETS_ASSOCIATIVITY /\ miss
               THEN (home + 1) % BUCKETS
               ELSE home
        r == Bucket_add(buckets[idx], key)
    IN [buckets |-> [buckets EXCEPT ![idx] = r.bucket], evict |-> r.evict]

\* collector.rs:120-125: the buckets after add(key) and what it returns.
StackHashCounter_add(buckets, h, key) ==
    LET idx == StackHashCounter_index(h, key)
        r == Bucket_add(buckets[idx], key)
    IN [buckets |-> [buckets EXCEPT ![idx] = r.bucket], evict |-> r.evict]

\* collector.rs:127-135: buckets[0].iter() chained with each later bucket's
\* iter(), in index order.
RECURSIVE StackHashCounter_chain(_, _)
StackHashCounter_chain(buckets, i) ==
    IF i >= BUCKETS THEN << >>
    ELSE Bucket_iter(buckets[i]) \o StackHashCounter_chain(buckets, i + 1)

StackHashCounter_iter(buckets) == StackHashCounter_chain(buckets, 0)

\* ----------------------------------------------------------- TempFdArray

\* The size in bytes of a usize, and of an Entry<usize> (item, count).
WORD == 8

ENTRY_SIZE == 2 * WORD

\* The len bytes of n in memory, lowest byte first.
RECURSIVE LittleEndian(_, _)
LittleEndian(n, len) ==
    IF len = 0 THEN << >>
    ELSE << n % 256 >> \o LittleEndian(n \div 256, len - 1)

\* The bytes of an Entry<usize> in memory, as flush_buffer's byte slice
\* shows them (collector.rs:158-163).
Entry_bytes(e) == LittleEndian(e.item, WORD) \o LittleEndian(e.count, WORD)

\* The bytes of a sequence of entries laid out one after the other.
RECURSIVE Bytes(_)
Bytes(entries) ==
    IF entries = << >> THEN << >>
    ELSE Entry_bytes(Head(entries)) \o Bytes(Tail(entries))

\* A TempFdArray value: file is the temporary file's content in bytes, pos
\* the offset (in bytes) of the one File handle, shared by its writes and
\* reads; buffer and buffer_index are the fields of the struct.

\* collector.rs:146-154
TempFdArray_new ==
    [file |-> << >>,
     pos |-> 0,
     buffer |-> [i \in 0 .. (BUFFER_LENGTH - 1) |-> Uninit],
     buffer_index |-> 0]

\* The buffer's slots 0..n-1 as a sequence.
Slots(buffer, n) == [i \in 1 .. n |-> buffer[i - 1]]

\* File_write always writing at the start of the file.
File_write_rewound(file, pos, bytes) ==
    bytes \o SubSeq(file, Len(bytes) + 1, Len(file))

\* File::write_all of `bytes` at offset pos: the bytes replace what the
\* file holds from pos on and extend it.  (collector.rs:164)
File_write(file, pos, bytes) ==
    SubSeq(file, 1, pos) \o bytes
        \o SubSeq(file, pos + Len(bytes) + 1, Len(file))

\* The outcomes of the write_all of one push: when the push flushes,
\* `written` of the BUFFER_LENGTH * ENTRY_SIZE bytes reach the file, a write
\* may stop after any byte, and the call returns Ok exactly when all of them
\* were written; a push that does not flush writes nothing.
WriteOutcomes(t) ==
    IF t.buffer_index >= BUFFER_LENGTH THEN 0 .. (BUFFER_LENGTH * ENTRY_SIZE)
    ELSE {BUFFER_LENGTH * ENTRY_SIZE}

\* TempFdArray_flush_buffer resetting buffer_index only after a write that
\* succeeded.
TempFdArray_flush_buffer_reset_late(t, written) ==
    LET buf == SubSeq(Bytes(Slots(t.buffer, BUFFER_LENGTH)), 1, written)
    IN [t |-> [t EXCEPT !.buffer_index =
                            IF written = BUFFER_LENGTH * ENTRY_SIZE
                            THEN 0 ELSE @,
                        !.file = File_write(t.file, t.pos, buf),
                        !.pos = t.pos + written],
        ret |-> IF written = BUFFER_LENGTH * ENTRY_SIZE THEN "Ok" ELSE "Err"]

\* collector.rs:156-167: buffer_index is reset first, then the whole buffer
\* is written as bytes; `written` is the outcome of the write.
TempFdArray_flush_buffer(t, written) ==
    LET buf == SubSeq(Bytes(Slots(t.buffer, BUFFER_LENGTH)), 1, written)
    IN [t |-> [t EXCEPT !.buffer_index = 0,
                        !.file = File_write(t.file, t.pos, buf),
                        !.pos = t.pos + written],
        ret |-> IF written = BUFFER_LENGTH * ENTRY_SIZE THEN "Ok" ELSE "Err"]

\* TempFdArray_store that puts every entry in slot 0.
TempFdArray_store_first_slot(t, entry) ==
    [t EXCEPT !.buffer[0] = entry,
              !.buffer_index = t.buffer_index + 1]

\* collector.rs:174-175
TempFdArray_store(t, entry) ==
    [t EXCEPT !.buffer[t.buffer_index] = entry,
              !.buffer_index = t.buffer_index + 1]

\* TempFdArray_push flushing on every call.
TempFdArray_push_flush_always(t, entry, written) ==
    LET f == TempFdArray_flush_buffer(t, written)
    IN IF f.ret = "Err"
       THEN [t |-> f.t, ret |-> "Err"]
       ELSE [t |-> TempFdArray_store(f.t, entry), ret |-> "Ok"]

\* TempFdArray_push ignoring the result of the flush.
TempFdArray_push_swallow(t, entry, written) ==
    IF t.buffer_index >= BUFFER_LENGTH
    THEN [t |-> TempFdArray_store(TempFdArray_flush_buffer(t, written).t, entry),
          ret |-> "Ok"]
    ELSE [t |-> TempFdArray_store(t, entry), ret |-> "Ok"]

\* collector.rs:169-178: a failed flush returns its error before the entry
\* is stored.
TempFdArray_push(t, entry, written) ==
    IF t.buffer_index >= BUFFER_LENGTH
    THEN LET f == TempFdArray_flush_buffer(t, written)
         IN IF f.ret = "Err"
            THEN [t |-> f.t, ret |-> "Err"]
            ELSE [t |-> TempFdArray_store(f.t, entry), ret |-> "Ok"]
    ELSE [t |-> TempFdArray_store(t, entry), ret |-> "Ok"]

\* The outcomes of the read_to_end of one iter (collector.rs:182): it reads
\* from the handle's offset towards the end of the file; with ok it has read
\* all n bytes that lie after the offset, without ok it has failed after n
\* of them.  Nothing in this file seeks, so the offset is where the last
\* write or read left it.
ReadOutcomes(t) ==
    LET rest == Len(t.file) - t.pos
    IN {[ok |-> TRUE, n |-> rest]}
           \cup {[ok |-> FALSE, n |-> j] : j \in 0 .. rest}

\* The values a slot of memory may hold when read as an Entry.
AnyEntry == {Entry(k, c) : k \in Keys, c \in 1 .. MaxAdds} \cup {Uninit}

\* collector.rs:184-185: the outcomes of slice::from_raw_parts on the
\* pointer of file_vec, for length = file_vec.len() / size_of::<T>() entries.
\* An empty file_vec owns no block and its pointer is the dangling address
\* of a Vec<u8>, not aligned for an Entry: the call is undefined, and a
\* build either aborts the process in the call (debug assertions) or makes
\* the empty slice.  Otherwise ts borrows the heap block of file_vec, which
\* is dropped when iter returns; the iterator then reads freed memory, so
\* each record it yields may be any value.
Dangling(file_vec) ==
    {[abort |-> FALSE, ts |-> s] :
        s \in [1 .. (Len(file_vec) \div ENTRY_SIZE) -> AnyEntry]}
        \cup (IF file_vec = << >>
              THEN {[abort |-> TRUE, ts |-> << >>]} ELSE {})

\* collector.rs:180-189: the TempFdArray after iter() and what it returns:
\* the error of the read, or the abort of the process, or the iterator,
\* given by the sequence it yields: the staged prefix buffer[0..buffer_index)
\* chained with ts, in that order.
TempFdArray_iter(t, rd, ts) ==
    [t |-> [t EXCEPT !.pos = t.pos + rd.n],
     ret |-> IF ~rd.ok THEN "Err" ELSE IF ts.abort THEN "Abort" ELSE "Ok",
     out |-> IF rd.ok /\ ~ts.abort
             THEN Slots(t.buffer, t.buffer_index) \o ts.ts ELSE << >>]

\* -------------------------------------------------------------- Collector

\* Program state: hash (see StackHashCounter_hash), map and temp_array (the
\* two fields of Collector).  Observations of the run: adds[k] counts the
\* add(k) calls made, evicted lists what map.add returned as evicted,
\* pushed lists the entries whose push returned Ok, failed says whether some
\* add returned Err, iters counts the calls of Collector::iter; op, ret,
\* evict and out describe the last call: its name, its io::Result ("Abort"
\* when the process aborted in the call, after which no call is made), what
\* map.add returned in it and what its iterator yields.
VARIABLES hash, map, temp_array, adds, evicted, pushed, failed, iters, op,
          ret, evict, out

vars == << hash, map, temp_array, adds, evicted, pushed, failed, iters, op,
           ret, evict, out >>

\* collector.rs:198-203
Init ==
    /\ hash \in HashFunctions
    /\ map = StackHashCounter_default
    /\ temp_array = TempFdArray_new
    /\ adds = [k \in Keys |-> 0]
    /\ evicted = << >>
    /\ pushed = << >>
    /\ failed = FALSE
    /\ iters = 0
    /\ op = "new"
    /\ ret = "Ok"
    /\ evict = << >>
    /\ out = << >>

RECURSIVE SumFn(_, _)
SumFn(f, S) ==
    IF S = {} THEN 0
    ELSE LET x == CHOOSE y \in S : TRUE IN f[x] + SumFn(f, S \ {x})

TotalAdds == SumFn(adds, Keys)

\* collector.rs:205-211: Collector::add(key).  When map.add evicts, the
\* evicted entry is pushed; `written` is the outcome of that push's write.
Collector_add(key) ==
    LET m == StackHashCounter_add(map, hash, key)
    IN /\ ret # "Abort"
       /\ TotalAdds < MaxAdds
       /\ map' = m.buckets
       /\ adds' = [adds EXCEPT ![key] = @ + 1]
       /\ evicted' = evicted \o m.evict
       /\ evict' = m.evict
       /\ op' = "Collector_add"
       /\ out' = << >>
       /\ UNCHANGED << hash, iters >>
       /\ IF m.evict # << >>
          THEN \E written \in WriteOutcomes(temp_array) :
               LET p == TempFdArray_push(temp_array, m.evict[1], written)
               IN /\ temp_array' = p.t
                  /\ ret' = p.ret
                  /\ pushed' = IF p.ret = "Ok" THEN pushed \o m.evict ELSE pushed
                  /\ failed' = (failed \/ p.ret = "Err")
          ELSE /\ temp_array' = temp_array
               /\ ret' = "Ok"
               /\ pushed' = pushed
               /\ failed' = failed

\* Collector_iter with the chain turned round: temp_array.iter() first.
Collector_iter_overflow_first ==
    /\ ret # "Abort"
    /\ iters < MaxIters
    /\ \E rd \in ReadOutcomes(temp_array) :
       \E ts \in Dangling(SubSeq(temp_array.file, temp_array.pos + 1,
                                 temp_array.pos + rd.n)) :
          LET it == TempFdArray_iter(temp_array, rd, ts)
          IN /\ temp_array' = it.t
             /\ ret' = it.ret
             /\ out' = IF it.ret = "Ok"
                       THEN it.out \o StackHashCounter_iter(map)
                       ELSE << >>
    /\ iters' = iters + 1
    /\ op' = "Collector_iter"
    /\ evict' = << >>
    /\ UNCHANGED << hash, map, adds, evicted, pushed, failed >>

\* collector.rs:213-215: Collector::iter(): map.iter() chained with
\* temp_array.iter(), or the error of the latter.
Collector_iter ==
    /\ ret # "Abort"
    /\ iters < MaxIters
    /\ \E rd \in ReadOutcomes(temp_array) :
       \E ts \in Dangling(SubSeq(temp_array.file, temp_array.pos + 1,
                                 temp_array.pos + rd.n)) :
          LET it == TempFdArray_iter(temp_array, rd, ts)
          IN /\ temp_array' = it.t
             /\ ret' = it.ret
             /\ out' = IF it.ret = "Ok"
                       THEN StackHashCounter_iter(map) \o it.out
                       ELSE << >>
    /\ iters' = iters + 1
    /\ op' = "Collector_iter"
    /\ evict' = << >>
    /\ UNCHANGED << hash, map, adds, evicted, pushed, failed >>

\* Map_iter with an iterator that empties the buckets it has walked.
Map_iter_draining ==
    /\ ret # "Abort"
    /\ out' = StackHashCounter_iter(map)
    /\ map' = [i \in 0 .. (BUCKETS - 1) |-> [map[i] EXCEPT !.length = 0]]
    /\ op' = "StackHashCounter_iter"
    /\ ret' = "Ok"
    /\ evict' = << >>
    /\ UNCHANGED << hash, temp_array, adds, evicted, pushed, failed, iters >>

\* collector.rs:127-135: StackHashCounter::iter() on the Collector's map.
Map_iter ==
    /\ ret # "Abort"
    /\ out' = StackHashCounter_iter(map)
    /\ op' = "StackHashCounter_iter"
    /\ ret' = "Ok"
    /\ evict' = << >>
    /\ UNCHANGED << hash, map, temp_array, adds, evicted, pushed, failed, iters >>

\* The keys a caller hands to add next.  Keys of equal digest that have not
\* been added yet differ in name only, so of these the run takes the one
\* of lowest number: within a digest, keys are numbered in the order of
\* their first add.
AddKeys ==
    {k \in Keys : \/ adds[k] > 0
                  \/ k = 0
                  \/ hash[k - 1] # hash[k]
                  \/ adds[k - 1] > 0}

Next ==
    \/ \E key \in AddKeys : Collector_add(key)
    \/ Collector_iter
    \/ Map_iter

Spec == Init /\ [][Next]_vars

\* ------------------------------------------------------------ observations

\* The sum of count over the entries of seq whose item is k.
RECURSIVE SumCount(_, _)
SumCount(seq, k) ==
    IF seq = << >> THEN 0
    ELSE (IF Head(seq).item = k THEN Head(seq).count ELSE 0)
             + SumCount(Tail(seq), k)

\* How often entry e occurs in seq.
Occurrences(seq, e) == Cardinality({i \in 1 .. Len(seq) : seq[i] = e})

\* What the map holds now, as its iter() would yield it.
Resident == StackHashCounter_iter(map)

\* After a Collector::iter that returned Ok: the part of `out` that follows
\* the map's entries, that is what temp_array.iter() yields.
OverflowOut == SubSeq(out, Len(Resident) + 1, Len(out))

\* The staged prefix of the overflow log.
Staged == Slots(temp_array.buffer, temp_array.buffer_index)

\* The first Collector::iter of a run has just returned its iterator, and no
\* add of the run returned an error.
FirstDrain == op = "Collector_iter" /\ ret = "Ok" /\ iters = 1 /\ ~failed

\* ------------------------------------------------------------------ claims

\* C1: after any sequence of successful Collector.add calls followed by one
\* Collector.iter(), for every key K the counts of the yielded entries with
\* item K sum to the number of add(K) calls.  (Stated as the claim has it;
\* the code breaks it once the staging buffer has been flushed.)
C1_SumInvariant ==
    FirstDrain => \A k \in Keys : SumCount(out, k) = adds[k]

\* C3: after any sequence of successful pushes, the first iter() of the
\* overflow log yields every pushed entry exactly once.  (Stated as the claim
\* has it; the code breaks it once the staging buffer has been flushed.)
C3_OverflowComplete ==
    FirstDrain =>
        \A e \in AnyEntry : Occurrences(OverflowOut, e) = Occurrences(pushed, e)

\* C4: the overflow log's iter() yields the records flushed to the file, in
\* the order written, before the still-staged entries, in slot order.  (Stated
\* as the claim has it; the code chains the staged prefix first and reads
\* nothing back from the file.)
C4_OverflowOrder ==
    FirstDrain => Bytes(OverflowOut) = temp_array.file \o Bytes(Staged)

\* The key of the add call that a step makes, when the step is an add.
AddedKey == CHOOSE k \in Keys : adds'[k] = adds[k] + 1

IsAdd == \E k \in Keys : adds'[k] = adds[k] + 1

\* The keys added so far that are routed to bucket idx.
RoutedKeys(idx) ==
    {k \in Keys : adds[k] > 0 /\ StackHashCounter_index(hash, k) = idx}

\* The entries of the occupied prefix of bucket b.
Occupied(b) == {b.entries[i] : i \in 0 .. (b.length - 1)}

\* C2: at the table level no count is dropped: for every key K, the counts
\* of the entries add has returned as evicted with item K, plus the counts of
\* the entries of the table with item K, sum to the number of add(K) calls.
C2_CountConservation ==
    \A k \in Keys : SumCount(evicted, k) + SumCount(Resident, k) = adds[k]

\* C2's case: a key whose history is split between an evicted entry and a
\* resident one.
C2_Witness ==
    \E k \in Keys : SumCount(evicted, k) > 0 /\ SumCount(Resident, k) > 0

\* C5: an add returns an evicted entry only when more than
\* BUCKETS_ASSOCIATIVITY distinct keys have been routed to the bucket; an add
\* of a key not resident in a bucket that holds BUCKETS_ASSOCIATIVITY keys
\* evicts exactly one entry of the bucket, one whose count is a minimum among
\* the resident counts at that moment.
C5_BucketAdmission ==
    [][IsAdd =>
        LET idx == StackHashCounter_index(hash, AddedKey)
            b == map[idx]
            full == b.length = BUCKETS_ASSOCIATIVITY
                        /\ \A e \in Occupied(b) : e.item # AddedKey
        IN /\ evict' # << >> =>
                Cardinality({k \in Keys : adds'[k] > 0
                                /\ StackHashCounter_index(hash, k) = idx})
                    > BUCKETS_ASSOCIATIVITY
           /\ full =>
                /\ Len(evict') = 1
                /\ evict'[1] \in Occupied(b)
                /\ \A e \in Occupied(b) : evict'[1].count <= e.count
                /\ Cardinality({i \in 0 .. (BUCKETS_ASSOCIATIVITY - 1) :
                                    map'[idx].entries[i] # b.entries[i]}) = 1
                /\ Occupied(b) \ Occupied(map'[idx]) = {evict'[1]}
    ]_vars

\* C5's case: an add has just evicted from a bucket whose counts differ.
C5_Witness ==
    /\ op = "Collector_add"
    /\ evict # << >>
    /\ \E b \in {map[i] : i \in 0 .. (BUCKETS - 1)} :
          \E e \in Occupied(b) : e.count > evict[1].count

\* C6: the occupied prefix of every bucket has pairwise-distinct keys.
C6_NoDuplicateKeys ==
    \A idx \in 0 .. (BUCKETS - 1) :
        \A i, j \in 0 .. (map[idx].length - 1) :
            i # j => map[idx].entries[i].item # map[idx].entries[j].item

\* C6's case: a full bucket one of whose keys was added again.
C6_Witness ==
    \E idx \in 0 .. (BUCKETS - 1) :
        /\ map[idx].length = BUCKETS_ASSOCIATIVITY
        /\ \E i \in 1 .. (BUCKETS_ASSOCIATIVITY - 1) :
              map[idx].entries[i].count > 1

\* No bucket has been handed more than BUCKETS_ASSOCIATIVITY distinct keys.
NoBucketOverfull ==
    \A idx \in 0 .. (BUCKETS - 1) :
        Cardinality(RoutedKeys(idx)) <= BUCKETS_ASSOCIATIVITY

\* C7: when no bucket has been handed more than BUCKETS_ASSOCIATIVITY
\* distinct keys, StackHashCounter.iter() yields exactly one entry for each
\* key added, with the number of its add calls as count, and no entry for a
\* key never added.
C7_ExactWithoutEviction ==
    (op = "StackHashCounter_iter" /\ NoBucketOverfull) =>
        /\ \A k \in Keys :
              Cardinality({i \in 1 .. Len(out) : out[i].item = k})
                  = IF adds[k] > 0 THEN 1 ELSE 0
        /\ \A i \in 1 .. Len(out) :
              out[i].item \in Keys /\ out[i].count = adds[out[i].item]

\* C7's case: iter() over a table of several keys, one added more than once,
\* spread over two buckets.
C7_Witness ==
    /\ op = "StackHashCounter_iter"
    /\ NoBucketOverfull
    /\ \E k \in Keys : adds[k] > 1
    /\ \A idx \in 0 .. (BUCKETS - 1) : map[idx].length > 0

\* A step is an add that evicts, finds the staging buffer full and whose
\* flush write fails: fewer than the BUFFER_LENGTH * ENTRY_SIZE bytes of the
\* block reach the file.
FailedFlushStep ==
    /\ IsAdd
    /\ evict' # << >>
    /\ temp_array.buffer_index >= BUFFER_LENGTH
    /\ Len(temp_array'.file)
           < Len(temp_array.file) + BUFFER_LENGTH * ENTRY_SIZE

\* C8: when Collector.add(key) evicts, the staging buffer is full and the
\* flush write fails, add returns the error, and the table has changed all
\* the same: key is resident in its bucket with count 1 and the displaced
\* entry is in no bucket.
C8_ErrorPropagates ==
    [][FailedFlushStep =>
        /\ ret' = "Err"
        /\ failed'
        /\ Entry(AddedKey, 1)
               \in Occupied(map'[StackHashCounter_index(hash, AddedKey)])
        /\ \A idx \in 0 .. (BUCKETS - 1) :
              \A e \in Occupied(map'[idx]) : e.item # evict'[1].item
    ]_vars

\* C8's case: an add that evicted has just returned an error, its write
\* having stopped inside a record.
C8_Witness ==
    /\ op = "Collector_add"
    /\ ret = "Err"
    /\ evict # << >>
    /\ Len(temp_array.file) % ENTRY_SIZE # 0

\* C9: when push finds the staging buffer full and the flush write fails,
\* the cursor is 0 afterwards and the new entry has not been stored, so the
\* BUFFER_LENGTH entries staged before the call are not in the staged prefix
\* and not in the file as a whole block; an iter() that follows yields
\* nothing from the staging buffer: it yields as many overflow entries as
\* it read whole records from the file.
C9_FlushFailureState ==
    [][/\ FailedFlushStep =>
            /\ temp_array'.buffer_index = 0
            /\ temp_array'.buffer = temp_array.buffer
            /\ pushed' = pushed
            /\ Staged' = << >>
            /\ SubSeq(temp_array'.file, Len(temp_array.file) + 1,
                      Len(temp_array'.file))
                   # Bytes(Slots(temp_array.buffer, BUFFER_LENGTH))
       /\ (op = "Collector_add" /\ ret = "Err"
               /\ op' = "Collector_iter" /\ ret' = "Ok") =>
            Len(OverflowOut') =
                (temp_array'.pos - temp_array.pos) \div ENTRY_SIZE
    ]_vars

\* C9's case: an iter() has returned its iterator after a flush failed, the
\* staged prefix being empty.
C9_Witness ==
    /\ op = "Collector_iter"
    /\ ret = "Ok"
    /\ failed
    /\ temp_array.buffer_index = 0
    /\ Len(pushed) < Len(evicted)

\* C10: StackHashCounter.iter() changes no bucket, so a second iter() with
\* no add in between yields the same entries in the same order: what a call
\* has yielded is what a call made in the state it leaves would yield.
C10_IterIdempotent ==
    [][op' = "StackHashCounter_iter" =>
        /\ map' = map
        /\ out' = StackHashCounter_iter(map')
        /\ op = "StackHashCounter_iter" => out' = out
    ]_vars

\* C10's case: iter() has yielded the entries of a table with an eviction
\* behind it.
C10_Witness ==
    op = "StackHashCounter_iter" /\ Len(out) > 1 /\ evicted # << >>


\* After a Collector::iter that returned Ok: how many of the overflow
\* entries it yields come from the file, the others being the staged prefix.
FileDerived == Len(OverflowOut) - temp_array.buffer_index

\* C11: the file read of the overflow log's iter() is one-shot: once a flush
\* has occurred, the first iter() yields all the records of the file, and a
\* second iter() with no push in between yields fewer file-derived records
\* than the first.  (Stated as the claim has it; in the code the first
\* iter() already reads nothing back from the file.)
C11_SinglePassDrain ==
    [][(op' = "Collector_iter" /\ ret' = "Ok" /\ ~failed
            /\ temp_array.file # << >>) =>
        /\ iters' = 1 =>
              FileDerived' = Len(temp_array'.file) \div ENTRY_SIZE
        /\ (iters' = 2 /\ op = "Collector_iter" /\ ret = "Ok") =>
              FileDerived' < FileDerived
    ]_vars


\* The bucket that the add call of a step works on, before the call and
\* after it.
AddBucket == map[StackHashCounter_index(hash, AddedKey)]

AddBucketAfter == map'[StackHashCounter_index(hash, AddedKey)]

\* A step is an add of a key that is not resident, to a full bucket.
FullMissStep ==
    /\ IsAdd
    /\ AddBucket.length = BUCKETS_ASSOCIATIVITY
    /\ \A e \in Occupied(AddBucket) : e.item # AddedKey

\* The slots of the add's bucket whose content the step changes.
ChangedSlots ==
    {i \in 0 .. (BUCKETS_ASSOCIATIVITY - 1) :
        AddBucketAfter.entries[i] # AddBucket.entries[i]}

\* C12: when add on a full bucket misses, the slot it evicts is the
\* lowest-index slot among those holding the minimum count.
C12_EvictionTieBreak ==
    [][FullMissStep =>
        \A i \in ChangedSlots :
            /\ \A j \in 0 .. (BUCKETS_ASSOCIATIVITY - 1) :
                  AddBucket.entries[i].count <= AddBucket.entries[j].count
            /\ \A j \in 0 .. (i - 1) :
                  AddBucket.entries[i].count < AddBucket.entries[j].count
    ]_vars

\* The bucket that the entry returned by the last add was evicted from.
EvictBucket == map[StackHashCounter_index(hash, evict[1].item)]

\* C12's case: an add has evicted from a bucket in which more than one slot
\* held the minimum count: beside the new entry, a slot still holds the
\* victim's count of 1.
C12_Witness ==
    /\ op = "Collector_add"
    /\ evict # << >>
    /\ evict[1].count = 1
    /\ Cardinality({i \in 0 .. (BUCKETS_ASSOCIATIVITY - 1) :
                        EvictBucket.entries[i].count = 1}) > 1

\* C13: when add evicts from a full bucket, the victim's slot holds
\* (key, 1) afterwards, the entry returned is the victim as it was before
\* the call, the bucket's length stays BUCKETS_ASSOCIATIVITY and the other
\* slots are unchanged.
C13_InPlaceReplacement ==
    [][FullMissStep =>
        \E i \in 0 .. (BUCKETS_ASSOCIATIVITY - 1) :
            /\ evict' = << AddBucket.entries[i] >>
            /\ evicted' = evicted \o << AddBucket.entries[i] >>
            /\ AddBucketAfter.entries[i] = Entry(AddedKey, 1)
            /\ AddBucketAfter.length = BUCKETS_ASSOCIATIVITY
            /\ \A j \in 0 .. (BUCKETS_ASSOCIATIVITY - 1) :
                  j # i => AddBucketAfter.entries[j] = AddBucket.entries[j]
    ]_vars

\* C13's case: an add has evicted an entry from a slot other than the
\* first, whose count is above the victim's.
C13_Witness ==
    /\ op = "Collector_add"
    /\ evict # << >>
    /\ EvictBucket.entries[0].count > evict[1].count


\* The number of occupied slots in the buckets before bucket idx.
RECURSIVE SlotsBefore(_)
SlotsBefore(idx) ==
    IF idx = 0 THEN 0 ELSE SlotsBefore(idx - 1) + map[idx - 1].length

\* C14: Collector.iter() yields the resident entries first, bucket by bucket
\* in index order and each occupied prefix in slot order, and only then the
\* entries of the overflow log's iter(): every entry after the resident ones
\* is a staged entry or a record read from the file.
C14_ResidentFirst ==
    [][(op' = "Collector_iter" /\ ret' = "Ok") =>
        /\ \A idx \in 0 .. (BUCKETS - 1) :
              \A i \in 0 .. (map[idx].length - 1) :
                  /\ SlotsBefore(idx) + i + 1 <= Len(out')
                  /\ out'[SlotsBefore(idx) + i + 1] = map[idx].entries[i]
        /\ Len(out') = SlotsBefore(BUCKETS) + temp_array.buffer_index
                           + (temp_array'.pos - temp_array.pos) \div ENTRY_SIZE
    ]_vars

\* C14's case: iter() has yielded the entries of two occupied buckets and a
\* staged overflow entry.
C14_Witness ==
    /\ op = "Collector_iter"
    /\ ret = "Ok"
    /\ temp_array.buffer_index > 0
    /\ \A idx \in 0 .. 1 : map[idx].length > 0


\* A step is an add that evicts, so that it pushes.
PushStep == IsAdd /\ evict' # << >>

\* The bytes that a step adds at the end of the file.
Appended ==
    SubSeq(temp_array'.file, Len(temp_array.file) + 1, Len(temp_array'.file))

\* s is an initial part of t.
IsPrefix(s, t) == Len(s) <= Len(t) /\ s = SubSeq(t, 1, Len(s))

\* C15: the cursor stays within 0..BUFFER_LENGTH; the file is written only
\* inside a push that finds the cursor at BUFFER_LENGTH, and what that push
\* writes is the bytes of the BUFFER_LENGTH staged entries in slot order, as
\* one block at the end of the file (a write that fails stops within the
\* block, after any of its bytes); every push that succeeds leaves the
\* cursor in 1..BUFFER_LENGTH, one past the slot it found free (slot 0 after
\* a flush), with the pushed entry in the slot before the cursor and the
\* other slots as they were.
C15_CursorProtocol ==
    [][/\ temp_array.buffer_index \in 0 .. BUFFER_LENGTH
       /\ temp_array'.buffer_index \in 0 .. BUFFER_LENGTH
       /\ temp_array'.file # temp_array.file =>
            /\ PushStep
            /\ temp_array.buffer_index = BUFFER_LENGTH
            /\ IsPrefix(temp_array.file, temp_array'.file)
            /\ IsPrefix(Appended,
                        Bytes(Slots(temp_array.buffer, BUFFER_LENGTH)))
            /\ ret' = "Ok" =>
                  Appended = Bytes(Slots(temp_array.buffer, BUFFER_LENGTH))
       /\ (PushStep /\ temp_array.buffer_index = BUFFER_LENGTH /\ ret' = "Ok") =>
            Appended = Bytes(Slots(temp_array.buffer, BUFFER_LENGTH))
       /\ (PushStep /\ ret' = "Ok") =>
            /\ temp_array'.buffer_index \in 1 .. BUFFER_LENGTH
            /\ temp_array'.buffer_index =
                  IF temp_array.buffer_index = BUFFER_LENGTH
                  THEN 1 ELSE temp_array.buffer_index + 1
            /\ temp_array'.buffer[temp_array'.buffer_index - 1] = evict'[1]
            /\ \A i \in 0 .. (BUFFER_LENGTH - 1) :
                  i # temp_array'.buffer_index - 1 =>
                      temp_array'.buffer[i] = temp_array.buffer[i]
    ]_vars

\* C15's case: a push has flushed a second block and stored its entry in
\* slot 0; the file holds the entries pushed before, different ones, in the
\* order of their pushes, each block having gone through the slots in order.
C15_Witness ==
    /\ op = "Collector_add"
    /\ evict # << >>
    /\ ret = "Ok"
    /\ ~failed
    /\ BUFFER_LENGTH > 1
    /\ Len(pushed) = 2 * BUFFER_LENGTH + 1
    /\ pushed[1] # pushed[2]
    /\ temp_array.file = Bytes(SubSeq(pushed, 1, 2 * BUFFER_LENGTH))
    /\ temp_array.buffer_index = 1
    /\ temp_array.buffer[0] = pushed[Len(pushed)]


\* C16: the file only grows at its end: in every step, whether an add that
\* pushes or an iter that reads, the bytes the file held are an initial
\* part of the bytes it holds afterwards.
C16_AppendOnly ==
    [][/\ IsPrefix(temp_array.file, temp_array'.file)
       /\ op' = "Collector_iter" => temp_array'.file = temp_array.file
    ]_vars

\* C16's case: the file holds two flushed blocks, the second written after
\* an iter had read the file.
C16_Witness ==
    /\ op = "Collector_add"
    /\ iters > 0
    /\ Len(temp_array.file) = 2 * BUFFER_LENGTH * ENTRY_SIZE
    /\ temp_array.pos = Len(temp_array.file)
    /\ temp_array.file[1] # temp_array.file[BUFFER_LENGTH * ENTRY_SIZE + 1]


\* The add of a step finds its key resident, or a free slot for it.
HitOrFreeStep ==
    /\ IsAdd
    /\ \/ AddBucket.length < BUCKETS_ASSOCIATIVITY
       \/ \E e \in Occupied(AddBucket) : e.item = AddedKey

\* C17: an add writes to the file only if the table evicted an entry and
\* the cursor was at BUFFER_LENGTH, and then it writes one block at most;
\* an add that hits a resident key or fills a free slot leaves the staging
\* buffer, the cursor and the file as they were.
C17_OneWritePerAdd ==
    [][IsAdd =>
        /\ temp_array'.file # temp_array.file =>
             /\ evict' # << >>
             /\ temp_array.buffer_index = BUFFER_LENGTH
             /\ Len(temp_array'.file) - Len(temp_array.file)
                    <= BUFFER_LENGTH * ENTRY_SIZE
             /\ temp_array'.buffer_index <= 1
        /\ (evict' # << >> /\ temp_array.buffer_index = BUFFER_LENGTH
                /\ ret' = "Ok") =>
             Len(temp_array'.file) - Len(temp_array.file)
                 = BUFFER_LENGTH * ENTRY_SIZE
        /\ HitOrFreeStep =>
             /\ evict' = << >>
             /\ temp_array' = temp_array
    ]_vars

\* C17's case: an add that hit or filled a slot while entries were staged
\* and a block was in the file.
C17_Witness ==
    /\ op = "Collector_add"
    /\ evict = << >>
    /\ temp_array.buffer_index > 0
    /\ Len(temp_array.file) >= BUFFER_LENGTH * ENTRY_SIZE
    /\ \E idx \in 0 .. (BUCKETS - 1) : map[idx].length < BUCKETS_ASSOCIATIVITY


\* The buckets in whose occupied prefix key k stands.
BucketsHolding(buckets, k) ==
    {idx \in 0 .. (BUCKETS - 1) : \E e \in Occupied(buckets[idx]) : e.item = k}

\* C18: an add acts on the bucket at index hash(key) mod BUCKETS as
\* Bucket::add does and leaves every other bucket unchanged; a key is
\* resident in no bucket but the one at its index, so in one bucket at most.
C18_RoutingLocality ==
    [][IsAdd =>
        /\ AddBucketAfter = Bucket_add(AddBucket, AddedKey).bucket
        /\ evict' = Bucket_add(AddBucket, AddedKey).evict
        /\ \A idx \in 0 .. (BUCKETS - 1) :
              idx # StackHashCounter_index(hash, AddedKey) =>
                  map'[idx] = map[idx]
        /\ BucketsHolding(map', AddedKey) =
              {StackHashCounter_index(hash, AddedKey)}
        /\ \A k \in Keys :
              BucketsHolding(map', k) \subseteq {StackHashCounter_index(hash, k)}
    ]_vars

\* C18's case: an add to a bucket full of other keys, while the other
\* bucket holds keys of its own and has room.
C18_Witness ==
    /\ op = "Collector_add"
    /\ evict # << >>
    /\ \E idx \in 0 .. (BUCKETS - 1) :
          /\ map[idx].length > 0
          /\ map[idx].length < BUCKETS_ASSOCIATIVITY


\* The entries of a sequence.
Range(s) == {s[i] : i \in 1 .. Len(s)}

\* C19: every entry in the occupied prefix of a bucket has a count of at
\* least 1, and so has every entry returned as evicted, every entry staged
\* in the overflow buffer and every entry an iter yields.
C19_CountsPositive ==
    /\ \A idx \in 0 .. (BUCKETS - 1) :
          \A e \in Occupied(map[idx]) : e.count >= 1
    /\ \A e \in Range(evicted) \cup Range(evict) : e.count >= 1
    /\ \A e \in Range(Slots(temp_array.buffer, temp_array.buffer_index)) :
          e.count >= 1
    /\ \A e \in Range(out) : e.count >= 1

\* C19's case: an iter yields a staged entry, which was evicted, after
\* resident entries of which one has a count above 1.
C19_Witness ==
    /\ op = "Collector_iter"
    /\ ret = "Ok"
    /\ temp_array.buffer_index > 0
    /\ out[Len(out)] = temp_array.buffer[temp_array.buffer_index - 1]
    /\ out[Len(out)] \in Range(evicted)
    /\ \E e \in Range(Resident) : e.count > 1
    /\ Len(out) > BUCKETS_ASSOCIATIVITY

\* C20: the length of every bucket is within 0..BUCKETS_ASSOCIATIVITY and
\* never decreases; it grows, by exactly 1, exactly in the bucket of an add
\* whose key is not resident there and which is not full; an add returns an
\* evicted entry only when its bucket was full before the call.
C20_LengthMonotone ==
    [][/\ \A idx \in 0 .. (BUCKETS - 1) :
            /\ map[idx].length \in 0 .. BUCKETS_ASSOCIATIVITY
            /\ map'[idx].length \in 0 .. BUCKETS_ASSOCIATIVITY
            /\ map'[idx].length \in {map[idx].length, map[idx].length + 1}
            /\ map'[idx].length = map[idx].length + 1 <=>
                  /\ IsAdd
                  /\ idx = StackHashCounter_index(hash, AddedKey)
                  /\ map[idx].length < BUCKETS_ASSOCIATIVITY
                  /\ \A e \in Occupied(map[idx]) : e.item # AddedKey
       /\ (IsAdd /\ evict' # << >>) =>
            AddBucket.length = BUCKETS_ASSOCIATIVITY
       /\ ~IsAdd => map' = map
    ]_vars

\* C20's case: one bucket has reached full length and evicted, and the last
\* add lengthened the other bucket.
C20_Witness ==
    /\ op = "Collector_add"
    /\ evict = << >>
    /\ evicted # << >>
    /\ \E idx \in 0 .. (BUCKETS - 1) :
          /\ map[idx].length = BUCKETS_ASSOCIATIVITY
          /\ map[(idx + 1) % BUCKETS].length = 1
          /\ map[(idx + 1) % BUCKETS].entries[0].count = 1

====
